---------------------------- MODULE Spec2Model ----------------------------
(***************************************************************************)
(* A model of packit/config/package_config.py: the PackageConfig class     *)
(* (construction, the memoized downstream_project_url, __eq__,             *)
(* get_from_dict, get_deprecated_key, get_all_files_to_sync) and the       *)
(* module functions get_local_package_config,                              *)
(* get_package_config_from_repo and parse_loaded_config.                   *)
(*                                                                         *)
(* Encoding of Python values:                                              *)
(*   - None is the string None (never used as a real value);               *)
(*   - a dict is a function whose DOMAIN is the set of present keys;       *)
(*   - a command vector / key list is written as its tokens joined by      *)
(*     blanks (the empty list is "", falsy like the empty string);         *)
(*   - spec_source_id is a sequence of one-character strings, because      *)
(*     int() and the f-string act on its characters.                       *)
(***************************************************************************)
EXTENDS Integers, Sequences, FiniteSets, TLC

VARIABLES
    \* ---- get_from_dict / parse_loaded_config (one call) ----
    raw,          \* the raw document handed to the call
    repo_name,    \* the repo_name argument
    env,          \* what the collaborators do on this document
    res,          \* the outcome of the call
    \* ---- two PackageConfig instances ----
    pc,           \* pc[i]: the fields of instance i
    urlReads,     \* urlReads[i]: reads of downstream_project_url so far
    urlComputes,  \* urlComputes[i]: evaluations of dist_git_package_url in them
    firstUrl,     \* firstUrl[i]: what the first read returned (None before it)
    lastUrl,      \* lastUrl[i]: what the latest read returned
    edits,        \* attribute assignments made so far
    lastEq,       \* the latest __eq__ call: operands as left, and the result
    \* ---- get_all_files_to_sync ----
    sync,         \* the instance: files_to_sync list, specfile_path, config_file_path
    aliased,      \* whether files_to_sync hands out the stored list or a copy
    returns,      \* the sequences returned by the calls so far
    \* ---- get_local_package_config ----
    loc,          \* arguments, file system, loop position, probes, outcome
    \* ---- get_package_config_from_repo ----
    rep           \* remote outcomes, loop position, fetches, outcome

resolveVars  == <<raw, repo_name, env, res>>
instanceVars == <<pc, urlReads, urlComputes, firstUrl, lastUrl, edits, lastEq>>
syncVars     == <<sync, aliased, returns>>
localVars    == <<loc>>
repoVars     == <<rep>>
vars == <<resolveVars, instanceVars, syncVars, localVars, repoVars>>

-----------------------------------------------------------------------------
(* Python values *)

None == "None"

\* bool(v) of an Optional[str]: None and "" are falsy
Truthy(v) == v # None /\ v # ""

\* `a or b`
Or(a, b) == IF Truthy(a) THEN a ELSE b

\* format(v) inside an f-string
Str(v) == IF v = None THEN "None" ELSE v

\* dict.get(key, default)
Get(d, key, default) == IF key \in DOMAIN d THEN d[key] ELSE default


-----------------------------------------------------------------------------
(* int(x) and f"Source{n}" on spec_source_id  (get_from_dict, lines 200-209) *)

DigitChars == <<"0", "1", "2", "3", "4", "5", "6", "7", "8", "9">>
IsDigit(c) == \E i \in 1..10 : DigitChars[i] = c
DigitVal(c) == (CHOOSE i \in 1..10 : DigitChars[i] = c) - 1

\* str.strip() of blanks, as int() does before it parses
RECURSIVE LStrip(_)
LStrip(s) == IF s # <<>> /\ Head(s) = " " THEN LStrip(Tail(s)) ELSE s
RECURSIVE RStrip(_)
RStrip(s) == IF s # <<>> /\ s[Len(s)] = " " THEN RStrip(SubSeq(s, 1, Len(s) - 1)) ELSE s

\* the digits of an int literal: digits, single underscores only between digits
DigitsOk(b) ==
    /\ b # <<>>
    /\ \A i \in 1..Len(b) : IsDigit(b[i]) \/ b[i] = "_"
    /\ b[1] # "_" /\ b[Len(b)] # "_"
    /\ \A i \in 1..(Len(b) - 1) : ~(b[i] = "_" /\ b[i + 1] = "_")

RECURSIVE DigitsValue(_, _)
DigitsValue(b, acc) ==
    IF b = <<>> THEN acc
    ELSE IF Head(b) = "_" THEN DigitsValue(Tail(b), acc)
    ELSE DigitsValue(Tail(b), 10 * acc + DigitVal(Head(b)))

\* int(s) of a str: [ok |-> FALSE] stands for ValueError
PyIntOfStr(s) ==
    LET t    == RStrip(LStrip(s))
        neg  == t # <<>> /\ Head(t) = "-"
        sgn  == t # <<>> /\ Head(t) \in {"-", "+"}
        body == IF sgn THEN Tail(t) ELSE t
    IN  IF DigitsOk(body)
        THEN [ok |-> TRUE, n |-> IF neg THEN 0 - DigitsValue(body, 0) ELSE DigitsValue(body, 0)]
        ELSE [ok |-> FALSE, n |-> 0]

\* int(v) of a raw spec_source_id value v = [isInt, n, s]
PyInt(v) == IF v.isInt THEN [ok |-> TRUE, n |-> v.n] ELSE PyIntOfStr(v.s)

RECURSIVE NatToStr(_)
NatToStr(n) == IF n < 10 THEN <<DigitChars[n + 1]>>
               ELSE NatToStr(n \div 10) \o <<DigitChars[(n % 10) + 1]>>

\* format(n) of an int inside an f-string
IntToStr(n) == IF n < 0 THEN <<"-">> \o NatToStr(0 - n) ELSE NatToStr(n)

SourceChars == <<"S", "o", "u", "r", "c", "e">>
Source0 == SourceChars \o <<"0">>

\* the try/int()/except ValueError/else of lines 202-209; a raw str is kept as it is
NormalizeSpecSourceIdSkipNumeric(v) == IF v.isInt THEN SourceChars \o IntToStr(v.n) ELSE v.s
NormalizeSpecSourceId(v) ==
    LET r == PyInt(v)
    IN  IF r.ok THEN SourceChars \o IntToStr(r.n) ELSE v.s

-----------------------------------------------------------------------------
(* PackageConfig.__init__  (lines 50-102) *)

PROD_DISTGIT_URL == "https://src.fedoraproject.org/"
DefaultVersionCommand == "git describe --tags --match *"

CtorDefaults ==
    [config_file_path |-> None, specfile_path |-> None, synced_files |-> <<>>,
     jobs |-> <<>>, dist_git_namespace |-> None, upstream_project_url |-> None,
     upstream_package_name |-> None, downstream_project_url |-> None,
     downstream_package_name |-> None, dist_git_base_url |-> None,
     create_tarball_command |-> None, current_version_command |-> None,
     actions |-> <<>>, upstream_ref |-> None, allowed_gpg_keys |-> None,
     create_pr |-> TRUE, spec_source_id |-> Source0,
     upstream_tag_template |-> "{version}"]

PackageConfigInit(a) ==
    [config_file_path         |-> a.config_file_path,
     specfile_path            |-> a.specfile_path,
     synced_files             |-> a.synced_files,
     jobs                     |-> a.jobs,
     dist_git_namespace       |-> Or(a.dist_git_namespace, "rpms"),
     upstream_project_url     |-> a.upstream_project_url,
     upstream_package_name    |-> a.upstream_package_name,
     downstream_package_name  |-> a.downstream_package_name,
     dist_git_base_url        |-> Or(a.dist_git_base_url, PROD_DISTGIT_URL),
     _downstream_project_url  |-> a.downstream_project_url,
     dist_git_clone_path      |-> None,
     actions                  |-> a.actions,
     upstream_ref             |-> a.upstream_ref,
     allowed_gpg_keys         |-> a.allowed_gpg_keys,
     create_pr                |-> a.create_pr,
     spec_source_id           |-> a.spec_source_id,
     create_tarball_command   |-> a.create_tarball_command,
     current_version_command  |-> Or(a.current_version_command, DefaultVersionCommand),
     upstream_tag_template    |-> a.upstream_tag_template]

-----------------------------------------------------------------------------
(* Collaborators of get_from_dict that live outside package_config.py *)

\* packit.actions.ActionName: the closed set of action identifiers
ActionNames == {"post-upstream-clone", "pre-sync", "create-patches", "prepare-files",
                "create-archive", "get-current-version"}

\* SyncFilesConfig.get_from_dict(raw, validate=False): entries kept in order
SyncFilesFromRaw(raw_dict) == Get(raw_dict, "synced_files", <<>>)

\* get_from_raw_jobs(raw_jobs): descriptors kept in declaration order
JobsFromRaw(raw_dict) == Get(raw_dict, "jobs", <<>>)

NoExc == [kind |-> "", msg |-> "", context |-> ""]
Raised(kind, msg, context) ==
    [status |-> "raised", exc |-> [kind |-> kind, msg |-> msg, context |-> context],
     pc |-> <<>>]
Returned(p) == [status |-> "returned", exc |-> NoExc, pc |-> <<p>>]

-----------------------------------------------------------------------------
(* PackageConfig.get_deprecated_key  (lines 232-244) *)

get_deprecated_key_old_first(raw_dict, new_key_name, old_key_name) ==
    Or(Get(raw_dict, old_key_name, None), Get(raw_dict, new_key_name, None))

get_deprecated_key(raw_dict, new_key_name, old_key_name) ==
    LET old == Get(raw_dict, old_key_name, None)
        r   == Get(raw_dict, new_key_name, None)
    IN  IF ~Truthy(r) THEN old ELSE r

\* lines 161-169
ResolveUpstreamName(raw_dict, rn) ==
    Or(get_deprecated_key(raw_dict, "upstream_package_name", "upstream_project_name"),
       Or(get_deprecated_key(raw_dict, "upstream_package_name", "upstream_name"), rn))

\* lines 178-181
ResolveDownstreamName(raw_dict, rn) ==
    Or(get_deprecated_key(raw_dict, "downstream_package_name", "package_name"), rn)

\* lines 183-190
ResolveSpecfilePath(raw_dict, downstream_package_name) ==
    LET specfile_path == Get(raw_dict, "specfile_path", None)
    IN  IF ~Truthy(specfile_path)
        THEN IF Truthy(downstream_package_name)
             THEN downstream_package_name \o ".spec"
             ELSE specfile_path
        ELSE specfile_path

-----------------------------------------------------------------------------
(* PackageConfig.get_from_dict  (lines 141-230) *)

RawSourceIdDefault == [isInt |-> FALSE, n |-> 0, s |-> Source0]

\* the dict comprehension {ActionName(a): cmd ...}: the first key outside the
\* closed set makes ActionName(a) raise
UnknownActions(actions) == {a \in DOMAIN actions : a \notin ActionNames}

\* what ActionName(a) raises for a key outside the closed set
UnknownActionError == [kind |-> "ConfigValidationError", msg |-> "unknown action"]

GetFromDictDropUnknownActions(raw_dict, config_file_path, rn, validate, e) ==
    LET actions == Get(raw_dict, "actions", <<>>)
    IN  Returned(PackageConfigInit(
            [CtorDefaults EXCEPT
                !.config_file_path = config_file_path,
                !.actions = [a \in (DOMAIN actions) \cap ActionNames |-> actions[a]]]))

GetFromDict(raw_dict, config_file_path, rn, validate, e) ==
    LET actions == Get(raw_dict, "actions", <<>>)
        upstream_package_name   == ResolveUpstreamName(raw_dict, rn)
        downstream_package_name == ResolveDownstreamName(raw_dict, rn)
        specfile_path  == ResolveSpecfilePath(raw_dict, downstream_package_name)
        spec_source_id ==
            NormalizeSpecSourceId(Get(raw_dict, "spec_source_id", RawSourceIdDefault))
    IN  IF validate /\ e.validate # "ok"
        THEN Raised(e.validate, "schema violation", "")
        ELSE IF e.jobs # "ok"
        THEN Raised(e.jobs, "bad job", "")
        ELSE IF UnknownActions(actions) # {}
        THEN Raised(UnknownActionError.kind, UnknownActionError.msg, "")
        ELSE Returned(PackageConfigInit(
            [config_file_path        |-> config_file_path,
             specfile_path           |-> specfile_path,
             synced_files            |-> SyncFilesFromRaw(raw_dict),
             actions                 |-> actions,
             jobs                    |-> JobsFromRaw(raw_dict),
             upstream_package_name   |-> upstream_package_name,
             downstream_package_name |-> downstream_package_name,
             upstream_project_url    |-> Get(raw_dict, "upstream_project_url", None),
             downstream_project_url  |-> None,
             dist_git_base_url       |-> Get(raw_dict, "dist_git_base_url", None),
             dist_git_namespace      |-> Get(raw_dict, "dist_git_namespace", None),
             create_tarball_command  |-> Get(raw_dict, "create_tarball_command", None),
             current_version_command |-> Get(raw_dict, "current_version_command", None),
             upstream_ref            |-> Get(raw_dict, "upstream_ref", None),
             allowed_gpg_keys        |-> Get(raw_dict, "allowed_gpg_keys", None),
             create_pr               |-> Get(raw_dict, "create_pr", TRUE),
             spec_source_id          |-> spec_source_id,
             upstream_tag_template   |-> Get(raw_dict, "upstream_tag_template", "{version}")]))

-----------------------------------------------------------------------------
(* parse_loaded_config  (lines 343-359) *)

WrapMessage(msg) == "Cannot parse package config: " \o msg \o "."

ParseLoadedConfigPassThrough(loaded_config, config_file_path, rn, e) ==
    IF e.dumps # "ok" THEN Raised(e.dumps, "not JSON serializable", "")
    ELSE GetFromDict(loaded_config, config_file_path, rn, TRUE, e)

ParseLoadedConfig(loaded_config, config_file_path, rn, e) ==
    IF e.dumps # "ok"
    THEN \* json.dumps in the debug message, line 347, is outside the try
         Raised(e.dumps, "not JSON serializable", "")
    ELSE LET r == GetFromDict(loaded_config, config_file_path, rn, TRUE, e)
         IN  IF r.status = "raised"
             THEN Raised("Exception", WrapMessage(r.exc.msg), r.exc.kind)
             ELSE r

-----------------------------------------------------------------------------
(* Idle values of the parts a specification does not exercise *)

IdleResolve  == raw = <<>> /\ repo_name = None /\ env = <<>> /\ res = <<>>
IdleInstance == /\ pc = <<>> /\ urlReads = <<>> /\ urlComputes = <<>> /\ firstUrl = <<>>
                /\ lastUrl = <<>> /\ edits = 0 /\ lastEq = <<>>
IdleSync     == sync = <<>> /\ aliased = FALSE /\ returns = <<>>
IdleLocal    == loc = <<>>
IdleRepo     == rep = <<>>

-----------------------------------------------------------------------------
(* One call of get_from_dict or parse_loaded_config on a raw document *)

MaxSourceIdLen == 3
MaxSourceInt == 11

NameKeys == {"upstream_package_name", "upstream_project_name", "upstream_name",
             "downstream_package_name", "package_name"}
NameVals == {"", "a", "b"}
RepoNames == {None, "r"}
ConfigPaths == {None, ".packit.yaml"}

\* documents that set any of the package-name keys
KeyDocs == UNION {[K -> NameVals] : K \in SUBSET NameKeys}

SourceIdChars == {"0", "2", "-", "+", "_", " ", "S"}
SourceIdStrings ==
    UNION {[1..n -> SourceIdChars] : n \in 0..MaxSourceIdLen}
        \cup {SourceChars \o <<"3">>, <<"1", "0", "_", "2", "0">>, <<" ", "-", "0", "2", "0", " ">>}
RawSourceIds ==
    {[isInt |-> FALSE, n |-> 0, s |-> s] : s \in SourceIdStrings}
        \cup {[isInt |-> TRUE, n |-> n, s |-> <<>>] : n \in (0 - 2)..MaxSourceInt}

\* documents that set spec_source_id (or leave it out)
SourceIdDocs == {[k \in {"spec_source_id"} |-> v] : v \in RawSourceIds} \cup {<<>>}

ActionKeys == {"pre-sync", "create-archive", "bogus"}
\* documents that set actions
ActionDocs == {[k \in {"actions"} |-> [a \in K |-> "make"]] : K \in SUBSET ActionKeys}

OkEnv == [validate |-> "ok", jobs |-> "ok", dumps |-> "ok"]
\* validate(raw) and get_from_raw_jobs may raise; json.dumps fails on a document
\* that holds a value JSON cannot write (a YAML date)
Envs == [validate : {"ok", "ConfigValidationError"}, jobs : {"ok", "ValueError"},
         dumps : {"ok", "TypeError"}]

NotCalled == [entry |-> "", config_file_path |-> None, status |-> "none",
              exc |-> NoExc, pc |-> <<>>]

InitResolve ==
    /\ \/ raw \in KeyDocs /\ repo_name \in RepoNames /\ env = OkEnv
       \/ raw \in SourceIdDocs /\ repo_name = None /\ env = OkEnv
       \/ raw \in ActionDocs /\ repo_name \in RepoNames /\ env \in Envs
    /\ res = NotCalled
    /\ IdleInstance /\ IdleSync /\ IdleLocal /\ IdleRepo

CallGetFromDict ==
    /\ res.status = "none"
    /\ \E validate \in BOOLEAN, cfp \in ConfigPaths :
          res' = [entry |-> "get_from_dict", config_file_path |-> cfp]
                    @@ GetFromDict(raw, cfp, repo_name, validate, env)
    /\ UNCHANGED <<raw, repo_name, env, instanceVars, syncVars, localVars, repoVars>>

CallParseLoadedConfig ==
    /\ res.status = "none"
    /\ \E cfp \in ConfigPaths :
          res' = [entry |-> "parse_loaded_config", config_file_path |-> cfp]
                    @@ ParseLoadedConfig(raw, cfp, repo_name, env)
    /\ UNCHANGED <<raw, repo_name, env, instanceVars, syncVars, localVars, repoVars>>

NextResolve == CallGetFromDict \/ CallParseLoadedConfig

SpecResolve == InitResolve /\ [][NextResolve]_vars

-----------------------------------------------------------------------------
(* C1: deprecated-key resolution *)

UpstreamChain == <<"upstream_package_name", "upstream_project_name", "upstream_name">>
DownstreamChain == <<"downstream_package_name", "package_name">>
Chains == {UpstreamChain, DownstreamChain}

Resolved(chain) == res.pc[1][chain[1]]

FirstOf(S) == CHOOSE i \in S : \A j \in S : i <= j

\* the value of the first key of the chain that is present
FirstPresent(chain) ==
    LET present == {i \in 1..Len(chain) : chain[i] \in DOMAIN raw}
    IN  raw[chain[FirstOf(present)]]

\* the value of the first key of the chain that is present with a non-empty value,
\* and repo_name when there is none
FirstNonEmpty(chain) ==
    LET nonEmpty == {i \in 1..Len(chain) : chain[i] \in DOMAIN raw /\ raw[chain[i]] # ""}
    IN  IF nonEmpty = {} THEN repo_name ELSE raw[chain[FirstOf(nonEmpty)]]

Without(d, key) == [k \in (DOMAIN d) \ {key} |-> d[k]]

\* resolving the document without one key gives the same value for the field
SameWithout(chain, key) ==
    LET other == GetFromDict(Without(raw, key), res.config_file_path, repo_name, FALSE, env)
    IN  other.status = "returned" /\ other.pc[1][chain[1]] = Resolved(chain)

\* C1 as stated: for every raw document get_from_dict resolves a canonical field to
\* the canonical key's value whenever that key is present, and otherwise to the
\* value of the highest-priority alias that is present.
C1_PresentKeyWins ==
    res.status = "returned" =>
        \A chain \in Chains :
            (\E i \in 1..Len(chain) : chain[i] \in DOMAIN raw)
                => Resolved(chain) = FirstPresent(chain)

\* C1 amended: get_from_dict resolves a canonical field to the canonical key's value
\* whenever that key holds a non-empty value, otherwise to the value of the
\* highest-priority alias holding a non-empty value, otherwise to repo_name; so a
\* non-empty canonical value wins over any alias, and when the canonical key and an
\* alias (the only two keys of the field present) hold equal values the result is
\* the one either key gives alone.
C1_NonEmptyKeyWins ==
    res.status = "returned" =>
        \A chain \in Chains :
            /\ Resolved(chain) = FirstNonEmpty(chain)
            /\ \A i \in 2..Len(chain) :
                  (/\ {k \in DOMAIN raw : \E j \in 1..Len(chain) : chain[j] = k}
                          = {chain[1], chain[i]}
                   /\ raw[chain[1]] = raw[chain[i]])
                  => SameWithout(chain, chain[1]) /\ SameWithout(chain, chain[i])

\* the canonical key and an alias are both set, to different values, and the call
\* returned the canonical one
C1_Witness ==
    /\ res.status = "returned"
    /\ {"upstream_package_name", "upstream_name", "downstream_package_name", "package_name"}
          \subseteq DOMAIN raw
    /\ raw["upstream_package_name"] = "a" /\ raw["upstream_name"] = "b"
    /\ raw["downstream_package_name"] = "b" /\ raw["package_name"] = "b"
    /\ res.pc[1].upstream_package_name = "a"
    /\ res.pc[1].downstream_package_name = "b"

-----------------------------------------------------------------------------
(* C5: spec_source_id normalization *)

RawSourceId == Get(raw, "spec_source_id", RawSourceIdDefault)

\* the value of a sequence of decimal digits, from the right
RECURSIVE DecimalValue(_)
DecimalValue(t) ==
    IF t = <<>> THEN 0
    ELSE 10 * DecimalValue(SubSeq(t, 1, Len(t) - 1)) + DigitVal(t[Len(t)])

\* s is blanks, an optional sign, then digits (single underscores between them), blanks
IntLikeParts(s) ==
    {p \in [lead : 0..Len(s), size : 1..Len(s)] :
        /\ p.lead + p.size <= Len(s)
        /\ \A i \in 1..Len(s) : (i <= p.lead \/ i > p.lead + p.size) => s[i] = " "
        /\ LET core == SubSeq(s, p.lead + 1, p.lead + p.size)
               body == IF core[1] \in {"+", "-"} THEN Tail(core) ELSE core
           IN  /\ body # <<>>
               /\ IsDigit(body[1]) /\ IsDigit(body[Len(body)])
               /\ \A i \in 1..Len(body) :
                     \/ IsDigit(body[i])
                     \/ body[i] = "_" /\ IsDigit(body[i - 1]) /\ IsDigit(body[i + 1])}

IntLike(s) == IntLikeParts(s) # {}

IntLikeValue(s) ==
    LET p    == CHOOSE q \in IntLikeParts(s) : TRUE
        core == SubSeq(s, p.lead + 1, p.lead + p.size)
        mag  == DecimalValue(SelectSeq(core, IsDigit))
    IN  IF core[1] = "-" THEN 0 - mag ELSE mag

\* t is the decimal writing of n: no blank, no "+", no leading zero
IsDecimalOf(t, n) ==
    LET digits == IF n < 0 THEN Tail(t) ELSE t
    IN  /\ t # <<>>
        /\ n < 0 => t[1] = "-"
        /\ digits # <<>>
        /\ \A i \in 1..Len(digits) : IsDigit(digits[i])
        /\ Len(digits) > 1 => digits[1] # "0"
        /\ DecimalValue(digits) = (IF n < 0 THEN 0 - n ELSE n)

IsSourceN(t, n) ==
    /\ Len(t) > Len(SourceChars)
    /\ SubSeq(t, 1, Len(SourceChars)) = SourceChars
    /\ IsDecimalOf(SubSeq(t, Len(SourceChars) + 1, Len(t)), n)

\* C5: after get_from_dict, spec_source_id is "Source<N>" when the raw value was the
\* integer N or an integer-like string of value N, and is the raw string unchanged
\* for every other raw string ("Source3" and "" among them).
C5_SpecSourceId ==
    res.status = "returned" =>
        LET v   == RawSourceId
            out == res.pc[1].spec_source_id
        IN  /\ v.isInt => IsSourceN(out, v.n)
            /\ (~v.isInt /\ IntLike(v.s)) => IsSourceN(out, IntLikeValue(v.s))
            /\ (~v.isInt /\ ~IntLike(v.s)) => out = v.s
            /\ (~v.isInt /\ v.s = <<"2">>) => out = SourceChars \o <<"2">>
            /\ (~v.isInt /\ v.s = SourceChars \o <<"3">>) => out = SourceChars \o <<"3">>
            /\ (~v.isInt /\ v.s = <<>>) => out = <<>>

\* the raw value was the string " 02" and the call returned "Source2"
C5_Witness ==
    /\ res.status = "returned"
    /\ "spec_source_id" \in DOMAIN raw
    /\ raw["spec_source_id"] = [isInt |-> FALSE, n |-> 0, s |-> <<" ", "0", "2">>]
    /\ res.pc[1].spec_source_id = SourceChars \o <<"2">>

-----------------------------------------------------------------------------
(* C8, C9: errors of get_from_dict and their wrapping by parse_loaded_config *)

DefinedKinds == {"ConfigNotFound", "ConfigParseError", "ConfigValidationError"}

\* the document's actions hold a key outside the closed set, and nothing else of
\* the call goes wrong
OnlyUnknownAction ==
    /\ res.status # "none"
    /\ UnknownActions(Get(raw, "actions", <<>>)) # {}
    /\ env.jobs = "ok" /\ env.dumps = "ok"

\* C8 as stated: a document whose actions hold a key outside the closed set makes
\* both get_from_dict and parse_loaded_config fail with ConfigValidationError, and
\* no PackageConfig is produced.
C8_ValidationErrorAtBothEntries ==
    OnlyUnknownAction =>
        /\ res.status = "raised"
        /\ res.exc.kind = "ConfigValidationError"
        /\ res.pc = <<>>

\* C8 amended: such a document makes get_from_dict fail with ConfigValidationError
\* and parse_loaded_config fail with the plain Exception that wraps that
\* ConfigValidationError; neither produces a PackageConfig.
C8_ValidationErrorWrappedAtEntry ==
    OnlyUnknownAction =>
        /\ res.status = "raised"
        /\ res.pc = <<>>
        /\ res.entry = "get_from_dict" => res.exc.kind = "ConfigValidationError"
        /\ res.entry = "parse_loaded_config" =>
              /\ res.exc.kind = "Exception"
              /\ res.exc.context = "ConfigValidationError"

\* the schema let the unknown key through, ActionName refused it, and
\* parse_loaded_config raised
C8_Witness ==
    /\ OnlyUnknownAction
    /\ env.validate = "ok"
    /\ DOMAIN raw["actions"] = {"pre-sync", "bogus"}
    /\ res.entry = "parse_loaded_config"
    /\ res.status = "raised"

\* what get_from_dict does inside the try of parse_loaded_config
Inner == GetFromDict(raw, res.config_file_path, repo_name, TRUE, env)

\* parse_loaded_config was called, and get_from_dict raised inside its try
ResolutionRaised ==
    /\ res.entry = "parse_loaded_config"
    /\ env.dumps = "ok"
    /\ Inner.status = "raised"

\* C9 as stated: at parse_loaded_config an exception of a defined kind reaches the
\* caller as that kind, and any other exception is wrapped into one
\* ConfigParseFailure (the plain Exception) that keeps the original message.
C9_DefinedKindsPassThrough ==
    ResolutionRaised =>
        /\ res.status = "raised"
        /\ IF Inner.exc.kind \in DefinedKinds
           THEN res.exc.kind = Inner.exc.kind
           ELSE res.exc.kind = "Exception" /\ res.exc.msg = WrapMessage(Inner.exc.msg)

\* C9 amended: at parse_loaded_config every exception raised by get_from_dict, of
\* a defined kind or not, reaches the caller as one plain Exception whose message
\* is "Cannot parse package config: <original message>."; only the failure of the
\* debug dump of the document, which precedes the try, is not wrapped.
C9_EveryExceptionWrapped ==
    /\ ResolutionRaised =>
          /\ res.status = "raised"
          /\ res.pc = <<>>
          /\ res.exc.kind = "Exception"
          /\ res.exc.msg = WrapMessage(Inner.exc.msg)
    /\ (res.entry = "parse_loaded_config" /\ env.dumps # "ok") =>
          /\ res.status = "raised"
          /\ res.exc.kind = env.dumps

\* validate raised ConfigValidationError and the caller got the wrapping Exception
C9_Witness ==
    /\ ResolutionRaised
    /\ Inner.exc.kind = "ConfigValidationError"
    /\ res.exc.kind = "Exception"
    /\ res.exc.msg = "Cannot parse package config: schema violation."

-----------------------------------------------------------------------------
(* PackageConfig instances: dist_git_package_url, downstream_project_url, __eq__ *)

\* the property dist_git_package_url  (lines 134-139)
dist_git_package_url(p) ==
    Str(p.dist_git_base_url) \o Str(p.dist_git_namespace) \o "/"
        \o Str(p.downstream_package_name) \o ".git"

\* the property downstream_project_url  (lines 104-108): the value returned, the
\* instance after the read, and whether dist_git_package_url was evaluated
ReadUrlNoMemo(p) ==
    IF ~Truthy(p._downstream_project_url)
    THEN [value |-> dist_git_package_url(p), p |-> p, computed |-> TRUE]
    ELSE [value |-> p._downstream_project_url, p |-> p, computed |-> FALSE]

ReadUrl(p) ==
    IF ~Truthy(p._downstream_project_url)
    THEN LET url == dist_git_package_url(p)
         IN  [value |-> url, p |-> [p EXCEPT !._downstream_project_url = url],
              computed |-> TRUE]
    ELSE [value |-> p._downstream_project_url, p |-> p, computed |-> FALSE]

\* __eq__  (lines 110-132): the operands of `and` left of downstream_project_url,
\* and those right of it
EqBeforeUrl == {"specfile_path", "synced_files", "jobs", "dist_git_namespace",
                "upstream_project_url", "upstream_package_name"}
EqAfterUrl == {"downstream_package_name", "dist_git_base_url", "current_version_command",
               "create_tarball_command", "actions", "allowed_gpg_keys", "create_pr",
               "spec_source_id", "upstream_tag_template"}

\* self == other: `and` stops at the first unequal pair, so the two reads of
\* downstream_project_url (self's, then other's) happen only when all before are equal
EqCall(self, other) ==
    LET before == \A f \in EqBeforeUrl : self[f] = other[f]
        rs     == ReadUrl(self)
        ro     == ReadUrl(other)
    IN  IF ~before
        THEN [result |-> FALSE, self |-> self, other |-> other, read |-> FALSE,
              rs |-> rs, ro |-> ro]
        ELSE [result |-> rs.value = ro.value /\ \A f \in EqAfterUrl : self[f] = other[f],
              self |-> rs.p, other |-> ro.p, read |-> TRUE, rs |-> rs, ro |-> ro]

MaxEdits == 2
MaxReads == 3

Instances == {1, 2}

\* the attributes of an instance that other code may assign
Attributes == {"config_file_path", "specfile_path", "synced_files", "jobs",
               "dist_git_namespace", "upstream_project_url", "upstream_package_name",
               "downstream_package_name", "dist_git_base_url", "dist_git_clone_path",
               "actions", "upstream_ref", "allowed_gpg_keys", "create_pr",
               "spec_source_id", "create_tarball_command", "current_version_command",
               "upstream_tag_template"}

\* the values an assignment may give an attribute
AttrValues(f) ==
    CASE f = "synced_files" -> {<<[src |-> "a", dest |-> "a"]>>}
      [] f = "jobs" -> {<<"build">>}
      [] f = "actions" -> {[a \in {"pre-sync"} |-> "make"]}
      [] f = "create_pr" -> {FALSE}
      [] f = "spec_source_id" -> {SourceChars \o <<"2">>}
      [] f = "dist_git_namespace" -> {"forks", "rpms"}
      [] f = "dist_git_base_url" -> {"https://example.com/"}
      [] f = "downstream_package_name" -> {"foo", "bar"}
      [] OTHER -> {"x"}

\* the arguments the two instances are constructed with
InstanceArgs ==
    {[CtorDefaults EXCEPT !.downstream_package_name = n, !.downstream_project_url = u] :
        n \in {None, "foo"}, u \in {None, "https://example.com/rpms/foo.git"}}

NoEq == [done |-> FALSE, self |-> 1, other |-> 1, result |-> FALSE]

InitInstance ==
    /\ \E a \in InstanceArgs : pc = [i \in Instances |-> PackageConfigInit(a)]
    /\ urlReads = [i \in Instances |-> 0]
    /\ urlComputes = [i \in Instances |-> 0]
    /\ firstUrl = [i \in Instances |-> None]
    /\ lastUrl = [i \in Instances |-> None]
    /\ edits = 0
    /\ lastEq = NoEq
    /\ IdleResolve /\ IdleSync /\ IdleLocal /\ IdleRepo

\* the bookkeeping of one read of downstream_project_url on instance i
NoteRead(i, r, reads, computes, first, last) ==
    [reads    |-> [reads EXCEPT ![i] = @ + 1],
     computes |-> [computes EXCEPT ![i] = @ + (IF r.computed THEN 1 ELSE 0)],
     first    |-> [first EXCEPT ![i] = IF reads[i] = 0 THEN r.value ELSE @],
     last     |-> [last EXCEPT ![i] = r.value]]

\* some code reads pc[i].downstream_project_url
ReadDownstreamProjectUrl(i) ==
    /\ urlReads[i] < MaxReads
    /\ LET r == ReadUrl(pc[i])
           n == NoteRead(i, r, urlReads, urlComputes, firstUrl, lastUrl)
       IN  /\ pc' = [pc EXCEPT ![i] = r.p]
           /\ urlReads' = n.reads /\ urlComputes' = n.computes
           /\ firstUrl' = n.first /\ lastUrl' = n.last
    /\ lastEq' = NoEq
    /\ UNCHANGED <<edits, resolveVars, syncVars, localVars, repoVars>>

\* pc[i] == pc[j]
Eq(i, j) ==
    /\ i # j
    /\ urlReads[i] < MaxReads /\ urlReads[j] < MaxReads
    /\ LET c  == EqCall(pc[i], pc[j])
           n1 == NoteRead(i, c.rs, urlReads, urlComputes, firstUrl, lastUrl)
           n2 == NoteRead(j, c.ro, n1.reads, n1.computes, n1.first, n1.last)
       IN  /\ pc' = [pc EXCEPT ![i] = c.self, ![j] = c.other]
           /\ IF c.read
              THEN /\ urlReads' = n2.reads /\ urlComputes' = n2.computes
                   /\ firstUrl' = n2.first /\ lastUrl' = n2.last
              ELSE UNCHANGED <<urlReads, urlComputes, firstUrl, lastUrl>>
           /\ lastEq' = [done |-> TRUE, self |-> i, other |-> j, result |-> c.result]
    /\ UNCHANGED <<edits, resolveVars, syncVars, localVars, repoVars>>

\* pc[i].f = v
SetAttr(i, f, v) ==
    /\ edits < MaxEdits
    /\ pc[i][f] # v
    /\ pc' = [pc EXCEPT ![i][f] = v]
    /\ edits' = edits + 1
    /\ lastEq' = NoEq
    /\ UNCHANGED <<urlReads, urlComputes, firstUrl, lastUrl,
                   resolveVars, syncVars, localVars, repoVars>>

NextInstance ==
    \/ \E i \in Instances : ReadDownstreamProjectUrl(i)
    \/ \E i, j \in Instances : Eq(i, j)
    \/ \E i \in Instances, f \in Attributes : \E v \in AttrValues(f) : SetAttr(i, f, v)

SpecInstance == InitInstance /\ [][NextInstance]_vars

\* the same instances when the only attributes assigned are the three inputs of
\* dist_git_package_url and specfile_path (which __eq__ compares first)
MemoAttributes == {"dist_git_base_url", "dist_git_namespace", "downstream_package_name",
                   "specfile_path"}

NextMemo ==
    \/ \E i \in Instances : ReadDownstreamProjectUrl(i)
    \/ \E i, j \in Instances : Eq(i, j)
    \/ \E i \in Instances, f \in MemoAttributes : \E v \in AttrValues(f) : SetAttr(i, f, v)

SpecMemo == InitInstance /\ [][NextMemo]_vars

-----------------------------------------------------------------------------
(* C2: __eq__ *)

\* the fields of the data model, downstream_project_url by its resolved value
DataModelFields == Attributes \cup {"downstream_project_url"}

FieldValue(p, f) == IF f = "downstream_project_url" THEN ReadUrl(p).value ELSE p[f]

\* C2: two PackageConfig values compare equal if and only if every field of the
\* data model other than config_file_path (upstream_ref and dist_git_clone_path
\* included) is equal by value on both sides.
C2_EqualIffAllFieldsEqual ==
    lastEq.done =>
        (lastEq.result <=>
            \A f \in DataModelFields \ {"config_file_path"} :
                FieldValue(pc[lastEq.self], f) = FieldValue(pc[lastEq.other], f))

\* what __eq__ does compare: the sixteen fields it names
C2_EqualIffComparedFieldsEqual ==
    lastEq.done =>
        (lastEq.result <=>
            \A f \in DataModelFields \ {"config_file_path", "upstream_ref", "dist_git_clone_path"} :
                FieldValue(pc[lastEq.self], f) = FieldValue(pc[lastEq.other], f))

-----------------------------------------------------------------------------
(* C3: the memoized downstream_project_url *)

\* C3: once downstream_project_url has been read on an instance, every later read
\* returns the same value and evaluates dist_git_package_url no more, whatever
\* reads, comparisons and assignments to the three inputs come in between.
C3_UrlMemoized ==
    \A i \in Instances :
        urlReads[i] >= 1 =>
            /\ lastUrl[i] = firstUrl[i]
            /\ urlComputes[i] <= 1
            /\ ReadUrl(pc[i]).value = firstUrl[i]
            /\ ~ReadUrl(pc[i]).computed

\* the URL was computed by a first read, its inputs were then assigned other
\* values, and the later reads still returned the first value
C3_Witness ==
    /\ urlReads[1] = MaxReads
    /\ urlComputes[1] = 1
    /\ edits = MaxEdits
    /\ lastUrl[1] = firstUrl[1]
    /\ firstUrl[1] # dist_git_package_url(pc[1])


-----------------------------------------------------------------------------
(* PackageConfig.get_all_files_to_sync  (lines 246-261) *)

SyncFilesItem(src, dest) == [src |-> src, dest |-> dest]

\* (item.src for item in files)
Sources(files) == {files[k].src : k \in 1..Len(files)}

GetAllFilesToSyncAlwaysAppendConfig(files, specfile_path, config_file_path) ==
    LET f1 == IF specfile_path \notin Sources(files)
              THEN Append(files, SyncFilesItem(specfile_path, specfile_path))
              ELSE files
    IN  Append(f1, SyncFilesItem(config_file_path, config_file_path))

GetAllFilesToSyncAlwaysAppendSpec(files, specfile_path, config_file_path) ==
    LET f1 == Append(files, SyncFilesItem(specfile_path, specfile_path))
    IN  IF config_file_path \notin Sources(f1)
        THEN Append(f1, SyncFilesItem(config_file_path, config_file_path))
        ELSE f1

\* the list `files` when the method returns
GetAllFilesToSync(files, specfile_path, config_file_path) ==
    LET f1 == IF specfile_path \notin Sources(files)
              THEN Append(files, SyncFilesItem(specfile_path, specfile_path))
              ELSE files
    IN  IF config_file_path \notin Sources(f1)
        THEN Append(f1, SyncFilesItem(config_file_path, config_file_path))
        ELSE f1

MaxFiles == 2
MaxCalls == 3

SyncPaths == {None, "a.spec", ".packit.yaml"}
SyncItems == {SyncFilesItem(s, d) : s \in {"a.spec", ".packit.yaml", "x"}, d \in {"x", "d"}}
SyncLists == UNION {[1..n -> SyncItems] : n \in 0..MaxFiles}

\* files_to_sync of SyncFilesConfig either hands out the list the instance holds,
\* so that the appends change the instance, or a copy of it
InitSync ==
    /\ \E fs \in SyncLists, sp \in SyncPaths, cp \in SyncPaths :
          sync = [initial |-> fs, files |-> fs, specfile_path |-> sp,
                  config_file_path |-> cp]
    /\ aliased \in BOOLEAN
    /\ returns = <<>>
    /\ IdleResolve /\ IdleInstance /\ IdleLocal /\ IdleRepo

CallGetAllFilesToSync ==
    /\ Len(returns) < MaxCalls
    /\ LET files == GetAllFilesToSync(sync.files, sync.specfile_path, sync.config_file_path)
       IN  /\ returns' = Append(returns, files)
           /\ sync' = [sync EXCEPT !.files = IF aliased THEN files ELSE @]
    /\ UNCHANGED <<aliased, resolveVars, instanceVars, localVars, repoVars>>

NextSync == CallGetAllFilesToSync

SpecSync == InitSync /\ [][NextSync]_vars

-----------------------------------------------------------------------------
(* C4, C10: get_all_files_to_sync *)

Count(files, src) == Cardinality({k \in 1..Len(files) : files[k].src = src})

NoDuplicateSource(files) ==
    \A k, l \in 1..Len(files) : files[k].src = files[l].src => k = l

\* C4 as stated: for every PackageConfig the sequence get_all_files_to_sync returns
\* holds no two entries with identical source path.
C4_NoDuplicateSource ==
    \A n \in 1..Len(returns) : NoDuplicateSource(returns[n])

\* C4 amended: get_all_files_to_sync adds no entry whose source path is already
\* there: each source path occurs in the returned sequence as often as in the
\* initial synced_files, or once when it is the specfile or config-file path and
\* the initial synced_files lacks it; so the returned sequence holds no two entries
\* with identical source path whenever the initial synced_files holds none.
C4_NoDuplicateAdded ==
    \A n \in 1..Len(returns) :
        /\ \A src \in Sources(returns[n]) \cup Sources(sync.initial) :
              Count(returns[n], src) =
                  IF Count(sync.initial, src) > 0 THEN Count(sync.initial, src) ELSE 1
        /\ Sources(returns[n]) =
              Sources(sync.initial) \cup {sync.specfile_path, sync.config_file_path}
        /\ NoDuplicateSource(sync.initial) => NoDuplicateSource(returns[n])

\* specfile_path and config_file_path are the same path, absent from the initial
\* synced_files, and the call returned it once
C4_Witness ==
    /\ Len(returns) >= 1
    /\ Len(sync.initial) = 1
    /\ sync.specfile_path = ".packit.yaml" /\ sync.config_file_path = ".packit.yaml"
    /\ ".packit.yaml" \notin Sources(sync.initial)
    /\ Count(returns[1], ".packit.yaml") = 1

SpecEntry == SyncFilesItem(sync.specfile_path, sync.specfile_path)
ConfigEntry == SyncFilesItem(sync.config_file_path, sync.config_file_path)

\* C10: every call of get_all_files_to_sync on the same PackageConfig returns a
\* sequence equal to the first call's, which is the original entries followed by
\* at most the specfile entry and then the config-file entry.
C10_Idempotent ==
    \A n \in 1..Len(returns) :
        /\ returns[n] = returns[1]
        /\ \E added \in {<<>>, <<SpecEntry>>, <<ConfigEntry>>, <<SpecEntry, ConfigEntry>>} :
              returns[n] = sync.initial \o added

\* the appends changed the instance's own list, both entries were added by the
\* first call, and the later calls returned the same
C10_Witness ==
    /\ aliased
    /\ Len(returns) = MaxCalls
    /\ Len(returns[1]) = Len(sync.initial) + 2
    /\ returns[MaxCalls] = returns[1]

-----------------------------------------------------------------------------
(* get_local_package_config  (lines 264-300) *)

\* packit.constants.CONFIG_FILE_NAMES: the recognized file names, in their order
CONFIG_FILE_NAMES == <<".packit.yaml", ".packit.yml", ".packit.json">>

Cwd == "/cwd"

\* lines 273-279: the directories in the order they are searched
DirectoriesCwdAppended(directory, try_local_dir_first, try_local_dir_last) ==
    directory \o (IF try_local_dir_first THEN <<Cwd>> ELSE <<>>)
              \o (IF try_local_dir_last THEN <<Cwd>> ELSE <<>>)

Directories(directory, try_local_dir_first, try_local_dir_last) ==
    LET d1 == IF try_local_dir_first THEN <<Cwd>> \o directory ELSE directory
    IN  IF try_local_dir_last THEN Append(d1, Cwd) ELSE d1

MaxDirs == 2
MaxExisting == 2

LocalDirs == {Cwd, "/d1", "/d2"}
DirLists == UNION {[1..n -> LocalDirs] : n \in 0..MaxDirs}
LocalFiles == LocalDirs \X {CONFIG_FILE_NAMES[k] : k \in 1..Len(CONFIG_FILE_NAMES)}
FileSystems == {fs \in SUBSET LocalFiles : Cardinality(fs) <= MaxExisting}

\* what the files found hold: text safe_load cannot read, or a document
GoodDoc == [k \in {"downstream_package_name"} |-> "a"]
BadActionsDoc == [k \in {"actions"} |-> [a \in {"bogus"} |-> "make"]]
Contents == {[malformed |-> TRUE, doc |-> <<>>], [malformed |-> FALSE, doc |-> GoodDoc],
             [malformed |-> FALSE, doc |-> BadActionsDoc]}

NoOutcome == [status |-> "none", exc |-> NoExc, pc |-> <<>>]

InitLocal ==
    /\ \E dl \in DirLists, first \in BOOLEAN, last \in BOOLEAN, fs \in FileSystems,
          c \in Contents, rn \in RepoNames :
          loc = [directory |-> dl, repo_name |-> rn, try_local_dir_first |-> first,
                 try_local_dir_last |-> last, fs |-> fs, content |-> c,
                 at |-> "start", directories |-> <<>>, d |-> 1, n |-> 1,
                 probes |-> <<>>, outcome |-> NoOutcome]
    /\ IdleResolve /\ IdleInstance /\ IdleSync /\ IdleRepo

\* lines 273-279
LocalBegin ==
    /\ loc.at = "start"
    /\ loc' = [loc EXCEPT !.at = "loop",
                  !.directories = Directories(loc.directory, loc.try_local_dir_first,
                                              loc.try_local_dir_last)]
    /\ UNCHANGED <<resolveVars, instanceVars, syncVars, repoVars>>

LocalPair == <<loc.directories[loc.d], CONFIG_FILE_NAMES[loc.n]>>

\* lines 283-284, 299: is_file() is false, on to the next name or directory
LocalProbeMissing ==
    /\ loc.at = "loop" /\ loc.d <= Len(loc.directories)
    /\ LocalPair \notin loc.fs
    /\ loc' = [loc EXCEPT !.probes = Append(@, LocalPair),
                  !.n = IF loc.n = Len(CONFIG_FILE_NAMES) THEN 1 ELSE @ + 1,
                  !.d = IF loc.n = Len(CONFIG_FILE_NAMES) THEN @ + 1 ELSE @]
    /\ UNCHANGED <<resolveVars, instanceVars, syncVars, repoVars>>

\* lines 284-297: is_file() is true; load the file and parse it, or raise
LocalProbeFound ==
    /\ loc.at = "loop" /\ loc.d <= Len(loc.directories)
    /\ LocalPair \in loc.fs
    /\ loc' = [loc EXCEPT !.probes = Append(@, LocalPair), !.at = "done",
                  !.outcome =
                      IF loc.content.malformed
                      THEN Raised("Exception", "Cannot load package config: bad yaml.", "YAMLError")
                      ELSE ParseLoadedConfig(loc.content.doc, CONFIG_FILE_NAMES[loc.n],
                                             loc.repo_name, OkEnv)]
    /\ UNCHANGED <<resolveVars, instanceVars, syncVars, repoVars>>

\* line 300: both loops ended
LocalNotFound ==
    /\ loc.at = "loop" /\ loc.d > Len(loc.directories)
    /\ loc' = [loc EXCEPT !.at = "done",
                  !.outcome = Raised("PackitConfigException", "No packit config found.", "")]
    /\ UNCHANGED <<resolveVars, instanceVars, syncVars, repoVars>>

NextLocal == LocalBegin \/ LocalProbeMissing \/ LocalProbeFound \/ LocalNotFound

SpecLocal == InitLocal /\ [][NextLocal]_vars

-----------------------------------------------------------------------------
(* C6: the probe order of get_local_package_config *)

NumNames == Len(CONFIG_FILE_NAMES)

\* the directories in priority order: the working directory if it goes first, the
\* supplied directories as given, the working directory if it goes last
PriorityDir(k) ==
    LET lead == IF loc.try_local_dir_first THEN 1 ELSE 0
    IN  IF k <= lead THEN Cwd
        ELSE IF k <= lead + Len(loc.directory) THEN loc.directory[k - lead]
        ELSE Cwd

NumPriorityDirs ==
    Len(loc.directory) + (IF loc.try_local_dir_first THEN 1 ELSE 0)
                       + (IF loc.try_local_dir_last THEN 1 ELSE 0)

\* the k-th (directory, filename) pair: directories outside, names inside
PriorityPair(k) ==
    <<PriorityDir(((k - 1) \div NumNames) + 1), CONFIG_FILE_NAMES[((k - 1) % NumNames) + 1]>>

LocalConfigNotFound ==
    loc.outcome.status = "raised" /\ loc.outcome.exc.kind = "PackitConfigException"

\* C6: get_local_package_config probes the pairs in priority order, directories
\* outside and file names inside, stops at the first pair whose file exists and
\* resolves that file; with try_local_dir_first the working directory is probed
\* before every supplied directory; with no match it raises the not-found error.
C6_ProbeOrder ==
    LET made == Len(loc.probes)
    IN  /\ made <= NumPriorityDirs * NumNames
        /\ \A k \in 1..made : loc.probes[k] = PriorityPair(k)
        /\ \A k \in 1..(made - 1) : loc.probes[k] \notin loc.fs
        /\ (loc.try_local_dir_first /\ made >= 1) =>
              \A k \in 1..made : k <= NumNames => loc.probes[k][1] = Cwd
        /\ loc.at # "done" => loc.outcome.status = "none"
        /\ loc.at = "done" =>
              /\ loc.outcome.status # "none"
              /\ IF \E k \in 1..(NumPriorityDirs * NumNames) : PriorityPair(k) \in loc.fs
                 THEN /\ made >= 1
                      /\ loc.probes[made] \in loc.fs
                      /\ ~LocalConfigNotFound
                      /\ loc.outcome.status = "returned" =>
                            loc.outcome.pc[1].config_file_path = loc.probes[made][2]
                 ELSE /\ made = NumPriorityDirs * NumNames
                      /\ LocalConfigNotFound

\* /d1 was supplied and holds the first file name, the working directory holds
\* only the second: with try_local_dir_first the call resolved the working
\* directory's file after two probes
C6_Witness ==
    /\ loc.at = "done"
    /\ loc.try_local_dir_first
    /\ loc.directory = <<"/d1">>
    /\ loc.fs = {<<"/d1", CONFIG_FILE_NAMES[1]>>, <<Cwd, CONFIG_FILE_NAMES[2]>>}
    /\ loc.probes = <<<<Cwd, CONFIG_FILE_NAMES[1]>>, <<Cwd, CONFIG_FILE_NAMES[2]>>>>
    /\ loc.outcome.status = "returned"

-----------------------------------------------------------------------------
(* get_package_config_from_repo  (lines 303-340) *)

\* the outcomes of sourcegit_project.get_file_content(path, ref)
FetchOutcomes == {"content", "FileNotFoundError", "OtherError"}

\* the except clause of lines 316-323: which outcomes go on to the next name
FetchSkippedAnyError(outcome) == outcome # "content"
FetchSkipped(outcome) == outcome = "FileNotFoundError"

NameSet == {CONFIG_FILE_NAMES[k] : k \in 1..Len(CONFIG_FILE_NAMES)}

InitRepo ==
    /\ \E remote \in [NameSet -> FetchOutcomes], c \in Contents, rn \in RepoNames :
          rep = [remote |-> remote, content |-> c, repo |-> rn, at |-> "loop", n |-> 1,
                 fetched |-> <<>>, outcome |-> NoOutcome]
    /\ IdleResolve /\ IdleInstance /\ IdleSync /\ IdleLocal

RepoName == CONFIG_FILE_NAMES[rep.n]

\* lines 316-323: not found, continue with the next name
RepoFetchSkipped ==
    /\ rep.at = "loop" /\ rep.n <= Len(CONFIG_FILE_NAMES)
    /\ FetchSkipped(rep.remote[RepoName])
    /\ rep' = [rep EXCEPT !.fetched = Append(@, RepoName), !.n = @ + 1]
    /\ UNCHANGED <<resolveVars, instanceVars, syncVars, localVars>>

\* any other exception of get_file_content leaves the function
RepoFetchRaised ==
    /\ rep.at = "loop" /\ rep.n <= Len(CONFIG_FILE_NAMES)
    /\ ~FetchSkipped(rep.remote[RepoName]) /\ rep.remote[RepoName] # "content"
    /\ rep' = [rep EXCEPT !.fetched = Append(@, RepoName), !.at = "done",
                  !.outcome = Raised(rep.remote[RepoName], "fetch failed", "")]
    /\ UNCHANGED <<resolveVars, instanceVars, syncVars, localVars>>

\* lines 325-334: the content is loaded and parsed, or the load raises
RepoFetchFound ==
    /\ rep.at = "loop" /\ rep.n <= Len(CONFIG_FILE_NAMES)
    /\ rep.remote[RepoName] = "content"
    /\ rep' = [rep EXCEPT !.fetched = Append(@, RepoName), !.at = "done",
                  !.outcome =
                      IF rep.content.malformed
                      THEN Raised("PackitException", "Cannot load package config: bad yaml.",
                                  "YAMLError")
                      ELSE ParseLoadedConfig(rep.content.doc, RepoName, rep.repo, OkEnv)]
    /\ UNCHANGED <<resolveVars, instanceVars, syncVars, localVars>>

\* lines 336-340: no name was found; return None
RepoReturnNone ==
    /\ rep.at = "loop" /\ rep.n > Len(CONFIG_FILE_NAMES)
    /\ rep' = [rep EXCEPT !.at = "done",
                  !.outcome = [status |-> "returned", exc |-> NoExc, pc |-> <<>>]]
    /\ UNCHANGED <<resolveVars, instanceVars, syncVars, localVars>>

NextRepo == RepoFetchSkipped \/ RepoFetchRaised \/ RepoFetchFound \/ RepoReturnNone

SpecRepo == InitRepo /\ [][NextRepo]_vars

-----------------------------------------------------------------------------
(* C7: not found, other errors and None in get_package_config_from_repo *)

\* C7: for each file name in the fixed order a not-found fetch goes on to the next
\* name without failing, any other fetch or load error leaves the call at once
\* with no further fetch, and when every name is not found the call returns None
\* and raises nothing.
C7_RepoLookup ==
    LET made == Len(rep.fetched)
    IN  /\ made <= NumNames
        /\ \A k \in 1..made : rep.fetched[k] = CONFIG_FILE_NAMES[k]
        /\ \A k \in 1..(made - 1) : rep.remote[rep.fetched[k]] = "FileNotFoundError"
        /\ rep.at # "done" =>
              /\ rep.outcome.status = "none"
              /\ \A k \in 1..made : rep.remote[rep.fetched[k]] = "FileNotFoundError"
        /\ rep.at = "done" =>
              IF \A name \in NameSet : rep.remote[name] = "FileNotFoundError"
              THEN /\ made = NumNames
                   /\ rep.outcome.status = "returned" /\ rep.outcome.pc = <<>>
              ELSE /\ made >= 1
                   /\ LET got == rep.remote[rep.fetched[made]]
                      IN  /\ got # "FileNotFoundError"
                          /\ got = "OtherError" =>
                                /\ rep.outcome.status = "raised"
                                /\ rep.outcome.exc.kind = "OtherError"
                          /\ (got = "content" /\ rep.content.malformed) =>
                                /\ rep.outcome.status = "raised"
                                /\ rep.outcome.exc.kind = "PackitException"
                          /\ (got = "content" /\ ~rep.content.malformed) =>
                                rep.outcome =
                                    ParseLoadedConfig(rep.content.doc, rep.fetched[made],
                                                      rep.repo, OkEnv)

\* the first name was not found, the fetch of the second failed otherwise, and the
\* call raised that error without fetching the third, which exists
C7_Witness ==
    /\ rep.at = "done"
    /\ rep.remote[CONFIG_FILE_NAMES[1]] = "FileNotFoundError"
    /\ rep.remote[CONFIG_FILE_NAMES[2]] = "OtherError"
    /\ rep.remote[CONFIG_FILE_NAMES[3]] = "content"
    /\ rep.fetched = <<CONFIG_FILE_NAMES[1], CONFIG_FILE_NAMES[2]>>
    /\ rep.outcome.status = "raised"
    /\ rep.outcome.exc.kind = "OtherError"

=============================================================================
